---------------------------- MODULE Spec2Model ----------------------------
(***************************************************************************)
(* A model of the go-vee controller (src/controller.go) and device (the    *)
(* device.go with the statusUpdate channel, src/unnamed/part_002): the     *)
(* Start and Shutdown calls, the UDP listener, command sender and periodic *)
(* scan goroutines, one handler goroutine per device, and the callers of   *)
(* the device methods.                                                     *)
(*                                                                         *)
(* Channels are modelled by what the Go runtime does with them:            *)
(*   - c.command is unbuffered.  A send completes only by a hand-over to a *)
(*     receiver.  A select with a default case sends only when the         *)
(*     receiver is already parked; a send on a closed channel panics, also *)
(*     inside a select and also for a sender that was already blocked.     *)
(*   - d.response is unbuffered; listener and handler both block, so the   *)
(*     hand-over is one step.                                              *)
(*   - d.statusUpdate has capacity 1; it is the number of buffered values. *)
(* A panic ends the process: no action is enabled once panicked is TRUE.   *)
(***************************************************************************)
EXTENDS Naturals, Integers, Sequences, FiniteSets, TLC

\* ------------------------------------------------------------------ bounds
MaxDatagrams == 3
NumCalls == 2
MaxTicks == 1
\* Datagrams read, calls of device methods and the call of Shutdown, together.
MaxEvents == 3

\* ------------------------------------------------------------- input sets
IPs == {"10.0.0.1", "10.0.0.2"}
Calls == 1..NumCalls
MulticastIP == "239.255.255.250"

NewColor(r, g, b) ==
  [r |-> IF r > 255 THEN 255 ELSE r,
   g |-> IF g > 255 THEN 255 ELSE g,
   b |-> IF b > 255 THEN 255 ELSE b]

\* The zero value of Version, and a decoded one.
ZeroVersion == <<0, 0, 0>>

\* scanResponse values a datagram can decode to.  The payload's ip is the
\* sender's own report: it may differ from the datagram's source address.
ScanResponses ==
  { [type |-> "scanResponse", ip |-> p, deviceID |-> "1F:80:C5",
     sku |-> "H6001", versions |-> <<1, 0, 10>>] : p \in IPs }

\* devStatusResponse values a datagram can decode to.
StatusA ==
  [type |-> "devStatusResponse", onOff |-> 1, brightness |-> 100,
   color |-> NewColor(255, 0, 0), colorKelvin |-> 7200]

StatusB ==
  [type |-> "devStatusResponse", onOff |-> 0, brightness |-> 30,
   color |-> NewColor(0, 0, 255), colorKelvin |-> 2700]

\* A payload whose numbers are outside the value types' ranges: json.Unmarshal
\* stores what the datagram carries (Brightness, Color and ColorKelvin have
\* no UnmarshalJSON of their own).
StatusC ==
  [type |-> "devStatusResponse", onOff |-> 1, brightness |-> 150,
   color |-> [r |-> 300, g |-> 0, b |-> 0], colorKelvin |-> 500]

DevStatusResponses == {StatusA, StatusB, StatusC}

\* What ReadFromUDP can deliver: the source address and what the two
\* json.Unmarshal calls make of the bytes.
Datagrams ==
  [src : IPs, cmd : {"scan"}, ok : {TRUE}, data : ScanResponses]
    \cup [src : IPs, cmd : {"devStatus"}, ok : {TRUE}, data : DevStatusResponses]
    \cup [src : IPs, cmd : {"scan", "devStatus"}, ok : {FALSE}, data : {"bad"}]
    \cup [src : IPs, cmd : {"other", "invalid"}, ok : {TRUE}, data : {"none"}]

NoMessage == [type |-> "none"]

\* The command sender has chosen no target.
NoTarget == [ip |-> "", port |-> 0]

\* ------------------------------------------------------------------ state
VARIABLES
  startPc,       \* Controller.Start: where the calling goroutine is
  shutdownPc,    \* Controller.Shutdown: where the calling goroutine is
  ctxDone,       \* c.ctx has been cancelled
  wg,            \* c.wg's counter
  connClosed,    \* conn.Close() has run
  commandClosed, \* close(c.command) has run
  listenerPc,    \* the UDP listener goroutine
  routed,        \* the Message the listener is sending on device.response
  senderPc,      \* the command sender goroutine
  cmd,           \* the Message the command sender took from c.command
  scanPc,        \* the periodic scan goroutine
  ticks,         \* ticks of the scan ticker so far
  devices,       \* c.devices: the Device values, in order
  handlerPc,     \* per device: its handler goroutine
  statusUpdate,  \* per device: values buffered in d.statusUpdate
  calls,         \* the callers of device methods
  hist,          \* per waiting call: what has happened since it enqueued
  last,          \* the latest call that returned, and how
  received,      \* datagrams read so far
  panicked,      \* a goroutine panicked: the process is gone
  statusLog,     \* per device: the devStatusResponses routed to it, in order
  observed,      \* per device: the instant its latest datagram was read
  routeLog,      \* the Messages the listener sent on a d.response, in order
  applyLog,      \* the Messages the handlers took from d.response, in order
  scanSent,      \* Messages the periodic scan has handed to c.command
  statusOK,      \* per device: RequestStatus calls that returned nil
  targetAddr,    \* the command sender's target, once chosen
  accepted,      \* the Messages the command sender's loop body began on
  wire,          \* the calls of deviceConn.Write, in order
  outcomes,      \* how the loop body ended for each Message, in order
  args,          \* a call of a value constructor or decoder: its arguments
  ret,           \* what that call returned
  applying,      \* per device: the Message its handler is applying, and how far
  reader         \* what a caller of the accessors has read

controllerVars ==
  <<startPc, shutdownPc, ctxDone, wg, connClosed, commandClosed,
    listenerPc, routed, senderPc, cmd, scanPc, ticks, devices,
    handlerPc, statusUpdate, calls, hist, last, received,
    panicked, statusLog, observed, routeLog, applyLog, scanSent, statusOK,
    targetAddr, accepted, wire, outcomes>>

\* The variables of the value types' calls and of the handler seen one
\* assignment at a time; the controller's actions leave them alone.
historyVars ==
  <<statusLog, observed, routeLog, applyLog, scanSent, statusOK>>
typesVars == <<args, ret>>
dispatchVars == <<targetAddr, accepted, wire, outcomes>>
fieldVars == <<applying, reader>>

vars == <<controllerVars, typesVars, fieldVars>>

lifecycleVars == <<startPc, shutdownPc, ctxDone, connClosed, commandClosed>>
listenerVars == <<listenerPc, routed, received>>
deviceVars == <<devices, handlerPc, statusUpdate>>
callVars == <<calls, hist, last>>

\* The zero time.Time of a Device that has applied no message.
ZeroTime == 0

\* 5*time.Minute, in the clock's unit.
FiveMinutes == 5

\* The instant the process started: the zero time.Time is year 1, so it is
\* more than five minutes after ZeroTime, however much more.
ProcessStart == ZeroTime + 2 * FiveMinutes

\* time.Now(), as a logical clock: the instant of the latest datagram read.
\* The listener reads the next datagram only after the handler took the
\* previous Message, so every applied Message gets a later instant.
TimeNow == ProcessStart + received

\* device.go 92-94: Active, called at instant now (time.Since(d.seen) is
\* now - d.seen).
Active(d, now) == now - d.seen < FiveMinutes

Registered == 1..Len(devices)

\* The calls made so far.
Made == {c \in Calls : calls[c].pc # "idle"}

\* Whether Shutdown has been called.
ShutdownCalled == IF shutdownPc = "idle" THEN 0 ELSE 1

\* The environment has another datagram or call to give.
MoreEvents == received + Cardinality(Made) + ShutdownCalled < MaxEvents

\* Device literal of the listener: ip and the logger's device_ip attribute
\* are the datagram's source address, everything else is Go's zero value.
NewDevice(srcAddr) ==
  [ip |-> srcAddr, logger |-> srcAddr,
   deviceID |-> "", sku |-> "", versions |-> ZeroVersion,
   state |-> 0, brightness |-> 0, color |-> [r |-> 0, g |-> 0, b |-> 0],
   colorKelvin |-> 0, seen |-> ZeroTime]

IdleCall == [pc |-> "idle", op |-> "none", dev |-> 0]
DoneCall == [pc |-> "done", op |-> "none", dev |-> 0]
NoHist == [applied |-> FALSE, shared |-> FALSE, before |-> <<>>]
NoReturn ==
  [op |-> "none", result |-> "none", waited |-> FALSE, applied |-> FALSE,
   shared |-> FALSE, unchanged |-> TRUE, canceled |-> FALSE]

\* The state NewController leaves: nothing started, no device registered.
InitController ==
  /\ startPc = "idle"
  /\ shutdownPc = "idle"
  /\ ctxDone = FALSE
  /\ wg = 0
  /\ connClosed = FALSE
  /\ commandClosed = FALSE
  /\ listenerPc = "none"
  /\ routed = [dev |-> 0, payload |-> NoMessage]
  /\ senderPc = "none"
  /\ cmd = NoMessage
  /\ scanPc = "none"
  /\ ticks = 0
  /\ devices = <<>>
  /\ handlerPc = <<>>
  /\ statusUpdate = <<>>
  /\ calls = [c \in Calls |-> IdleCall]
  /\ hist = [c \in Calls |-> NoHist]
  /\ last = NoReturn
  /\ received = 0
  /\ panicked = FALSE
  /\ statusLog = <<>>
  /\ observed = <<>>
  /\ routeLog = <<>>
  /\ applyLog = <<>>
  /\ scanSent = 0
  /\ statusOK = <<>>
  /\ targetAddr = NoTarget
  /\ accepted = <<>>
  /\ wire = <<>>
  /\ outcomes = <<>>

\* No value constructor or decoder has been called.
NoCall == [fn |-> "none"]

\* No handler is inside a case body, and no accessor has been read.
NotApplying == [step |-> "none", payload |-> NoMessage]

Init ==
  /\ InitController
  /\ args = NoCall
  /\ ret = NoCall
  /\ applying = NotApplying
  /\ reader = <<>>

\* ------------------------------------------------- Controller.Start, Shutdown
\* A Start that has started its listener by the time the setup fails.
Start_Setup_ListenFirst ==
  /\ ~panicked
  /\ startPc = "idle"
  /\ \E err \in BOOLEAN :
       IF err THEN /\ startPc' = "failed"
                   /\ listenerPc' = "select"
                   /\ wg' = wg + 1
              ELSE /\ startPc' = "bound"
                   /\ UNCHANGED <<listenerPc, wg>>
  /\ UNCHANGED <<shutdownPc, ctxDone, connClosed, commandClosed, routed,
                 received, senderPc, cmd, scanPc, ticks, deviceVars,
                 callVars, panicked, historyVars, typesVars, dispatchVars, fieldVars>>

\* controller.go 38-55: resolve, bind, set the read buffer.  Any of the three
\* can fail, and Start then returns the error.
Start_Setup ==
  /\ ~panicked
  /\ startPc = "idle"
  /\ \E err \in BOOLEAN : startPc' = IF err THEN "failed" ELSE "bound"
  /\ UNCHANGED <<shutdownPc, ctxDone, wg, connClosed, commandClosed,
                 listenerVars, senderPc, cmd, scanPc, ticks, deviceVars,
                 callVars, panicked>>
  /\ UNCHANGED <<historyVars, typesVars, dispatchVars, fieldVars>>

\* controller.go 59-60: c.wg.Add(1); go func() { listener }.
Start_GoListener ==
  /\ ~panicked
  /\ startPc = "bound"
  /\ startPc' = "listening"
  /\ wg' = wg + 1
  /\ listenerPc' = "select"
  /\ UNCHANGED <<shutdownPc, ctxDone, connClosed, commandClosed, routed,
                 received, senderPc, cmd, scanPc, ticks, deviceVars,
                 callVars, panicked>>
  /\ UNCHANGED <<historyVars, typesVars, dispatchVars, fieldVars>>

\* controller.go 145-146: c.wg.Add(1); go func() { command sender }.
Start_GoSender ==
  /\ ~panicked
  /\ startPc = "listening"
  /\ startPc' = "sending"
  /\ wg' = wg + 1
  /\ senderPc' = "range"
  /\ UNCHANGED <<shutdownPc, ctxDone, connClosed, commandClosed,
                 listenerVars, cmd, scanPc, ticks, deviceVars, callVars,
                 panicked>>
  /\ UNCHANGED <<historyVars, typesVars, dispatchVars, fieldVars>>

\* controller.go 190-191: c.wg.Add(1); go func() { periodic scan }.
Start_GoScan ==
  /\ ~panicked
  /\ startPc = "sending"
  /\ startPc' = "running"
  /\ wg' = wg + 1
  /\ scanPc' = "send"
  /\ UNCHANGED <<shutdownPc, ctxDone, connClosed, commandClosed,
                 listenerVars, senderPc, cmd, ticks, deviceVars, callVars,
                 panicked>>
  /\ UNCHANGED <<historyVars, typesVars, dispatchVars, fieldVars>>

\* controller.go 220-223: <-c.ctx.Done(); conn.Close().
Start_CloseConn ==
  /\ ~panicked
  /\ startPc = "running"
  /\ ctxDone
  /\ startPc' = "closing"
  /\ connClosed' = TRUE
  /\ UNCHANGED <<shutdownPc, ctxDone, wg, commandClosed, listenerVars,
                 senderPc, cmd, scanPc, ticks, deviceVars, callVars,
                 panicked>>
  /\ UNCHANGED <<historyVars, typesVars, dispatchVars, fieldVars>>

\* controller.go 224: close(c.command).
Start_CloseCommand ==
  /\ ~panicked
  /\ startPc = "closing"
  /\ startPc' = "waiting"
  /\ commandClosed' = TRUE
  /\ UNCHANGED <<shutdownPc, ctxDone, wg, connClosed, listenerVars,
                 senderPc, cmd, scanPc, ticks, deviceVars, callVars,
                 panicked>>
  /\ UNCHANGED <<historyVars, typesVars, dispatchVars, fieldVars>>

\* controller.go 225-227: c.wg.Wait(); return nil.
Start_Return ==
  /\ ~panicked
  /\ startPc = "waiting"
  /\ wg = 0
  /\ startPc' = "returned"
  /\ UNCHANGED <<shutdownPc, ctxDone, wg, connClosed, commandClosed,
                 listenerVars, senderPc, cmd, scanPc, ticks, deviceVars,
                 callVars, panicked>>
  /\ UNCHANGED <<historyVars, typesVars, dispatchVars, fieldVars>>

\* controller.go 233: c.cancel().  Shutdown can be called at any time.
Shutdown_Cancel ==
  /\ ~panicked
  /\ MoreEvents
  /\ shutdownPc = "idle"
  /\ shutdownPc' = "waiting"
  /\ ctxDone' = TRUE
  /\ UNCHANGED <<startPc, wg, connClosed, commandClosed, listenerVars,
                 senderPc, cmd, scanPc, ticks, deviceVars, callVars,
                 panicked>>
  /\ UNCHANGED <<historyVars, typesVars, dispatchVars, fieldVars>>

\* controller.go 236-238: c.wg.Wait(); return nil.
Shutdown_Return ==
  /\ ~panicked
  /\ shutdownPc = "waiting"
  /\ wg = 0
  /\ shutdownPc' = "returned"
  /\ UNCHANGED <<startPc, ctxDone, wg, connClosed, commandClosed,
                 listenerVars, senderPc, cmd, scanPc, ticks, deviceVars,
                 callVars, panicked>>
  /\ UNCHANGED <<historyVars, typesVars, dispatchVars, fieldVars>>

\* ------------------------------------------------------------ the registry
\* A lookup that returns the latest registered match instead of the earliest.
DeviceByIPFrom_Last(devs, i, ip) ==
  LET m == {j \in i..Len(devs) : devs[j].ip = ip}
  IN IF m = {} THEN 0 ELSE CHOOSE j \in m : \A k \in m : k <= j

RECURSIVE DeviceByIPFrom(_, _, _)
\* controller.go 247-254, the loop of DeviceByIP from index i on: the first
\* device whose ip is the argument, 0 (ErrNoDeviceFound) when there is none.
DeviceByIPFrom(devs, i, ip) ==
  IF i > Len(devs) THEN 0
  ELSE IF devs[i].ip = ip THEN i
  ELSE DeviceByIPFrom(devs, i + 1, ip)

DeviceByIPIn(devs, ip) == DeviceByIPFrom(devs, 1, ip)

DeviceByIP(ip) == DeviceByIPIn(devices, ip)

RECURSIVE DeviceByIDFrom(_, _, _)
\* controller.go 257-264, the loop of DeviceByID from index i on: the first
\* device whose deviceID is the argument, 0 (ErrNoDeviceFound) when none.
DeviceByIDFrom(devs, i, id) ==
  IF i > Len(devs) THEN 0
  ELSE IF devs[i].deviceID = id THEN i
  ELSE DeviceByIDFrom(devs, i + 1, id)

DeviceByID(id) == DeviceByIDFrom(devices, 1, id)

\* ------------------------------------------------------- the UDP listener
\* controller.go 67-70: the select at the top of the loop, ctx.Done() ready.
Listener_Exit ==
  /\ ~panicked
  /\ listenerPc = "select"
  /\ ctxDone
  /\ listenerPc' = "done"
  /\ wg' = wg - 1
  /\ UNCHANGED <<lifecycleVars, routed, received, senderPc, cmd, scanPc,
                 ticks, deviceVars, callVars, panicked>>
  /\ UNCHANGED <<historyVars, typesVars, dispatchVars, fieldVars>>

\* controller.go 70-74: the default case; the goroutine enters ReadFromUDP.
Listener_Default ==
  /\ ~panicked
  /\ listenerPc = "select"
  /\ ~ctxDone
  /\ listenerPc' = "read"
  /\ UNCHANGED <<lifecycleVars, wg, routed, received, senderPc, cmd, scanPc,
                 ticks, deviceVars, callVars, panicked>>
  /\ UNCHANGED <<historyVars, typesVars, dispatchVars, fieldVars>>

\* controller.go 75-82: the read times out (500 ms) or fails (the socket was
\* closed); continue.
Listener_ReadError ==
  /\ ~panicked
  /\ listenerPc = "read"
  /\ listenerPc' = "select"
  /\ UNCHANGED <<lifecycleVars, wg, routed, received, senderPc, cmd, scanPc,
                 ticks, deviceVars, callVars, panicked>>
  /\ UNCHANGED <<historyVars, typesVars, dispatchVars, fieldVars>>

\* A registration that puts the new Device first.
Register_Front(devs, d) == <<d>> \o devs

\* controller.go 101: c.devices = append(c.devices, &newDevice).
Register(devs, d) == Append(devs, d)

\* controller.go 84-139: a datagram was read.  Look the source up, register a
\* new Device and start its handler, decode the envelope and the payload, and
\* go on to send on device.response (a blocking send: the goroutine stays in
\* "route" until the handler takes it).
Listener_Receive(dg) ==
  /\ ~panicked
  /\ listenerPc = "read"
  /\ ~connClosed
  /\ received < MaxDatagrams
  /\ MoreEvents
  /\ received' = received + 1
  /\ LET found == DeviceByIP(dg.src)
         target == IF found = 0 THEN Len(devices) + 1 ELSE found
         decoded == dg.cmd \in {"scan", "devStatus"} /\ dg.ok
         known == IF found = 0 THEN Append(statusLog, <<>>) ELSE statusLog
     IN /\ IF found = 0
             THEN /\ devices' = Register(devices, NewDevice(dg.src))
                  /\ handlerPc' = Append(handlerPc, "run")
                  /\ statusUpdate' = Append(statusUpdate, 0)
             ELSE UNCHANGED deviceVars
        /\ statusOK' = IF found = 0 THEN Append(statusOK, 0) ELSE statusOK
        /\ observed' =
             IF found = 0 THEN Append(observed, TimeNow + 1)
                          ELSE [observed EXCEPT ![found] = TimeNow + 1]
        /\ statusLog' = IF decoded /\ dg.cmd = "devStatus"
                          THEN [known EXCEPT ![target] = Append(@, dg.data)]
                          ELSE known
        /\ IF decoded
             THEN /\ listenerPc' = "route"
                  /\ routed' = [dev |-> target, payload |-> dg.data]
                  /\ routeLog' = Append(routeLog,
                       [src |-> dg.src, n |-> received + 1, dev |-> target,
                        payload |-> dg.data])
             ELSE /\ listenerPc' = "select"
                  /\ UNCHANGED <<routed, routeLog>>
  /\ UNCHANGED <<lifecycleVars, wg, senderPc, cmd, scanPc, ticks, callVars,
                 panicked>>
  /\ UNCHANGED <<applyLog, scanSent, typesVars, dispatchVars, fieldVars>>

\* ------------------------------------------------------ Device.handler
\* device.go 48-57: the scanResponse case.
ApplyScan(d, payload, t) ==
  [d EXCEPT !.ip = payload.ip, !.deviceID = payload.deviceID,
            !.sku = payload.sku, !.versions = payload.versions, !.seen = t]

\* A devStatusResponse case that leaves color and colorKelvin as they were.
ApplyStatus_NoColor(d, payload, t) ==
  [d EXCEPT !.state = payload.onOff, !.brightness = payload.brightness,
            !.seen = t]

\* device.go 59-65: the devStatusResponse case.
ApplyStatus(d, payload, t) ==
  [d EXCEPT !.state = payload.onOff, !.brightness = payload.brightness,
            !.color = payload.color, !.colorKelvin = payload.colorKelvin,
            !.seen = t]

\* A handler that sends nothing on d.statusUpdate.
SignalStatus_NoSend(buffered) == buffered

\* device.go 66-69: the non-blocking send on d.statusUpdate (capacity 1):
\* the number of buffered values afterwards.
SignalStatus(buffered) == IF buffered = 0 THEN 1 ELSE buffered

\* A handler whose send on d.statusUpdate blocks while a value is buffered:
\* it takes the next Message only with the buffer empty.
Handler_Apply_Blocking(i) ==
  /\ ~panicked
  /\ listenerPc = "route"
  /\ routed.dev = i
  /\ handlerPc[i] = "run"
  /\ statusUpdate[i] = 0
  /\ listenerPc' = "select"
  /\ routed' = [dev |-> 0, payload |-> NoMessage]
  /\ IF routed.payload.type = "scanResponse"
       THEN /\ devices' = [devices EXCEPT ![i] = ApplyScan(@, routed.payload, TimeNow)]
            /\ UNCHANGED <<statusUpdate, hist>>
       ELSE /\ devices' = [devices EXCEPT ![i] = ApplyStatus(@, routed.payload, TimeNow)]
            /\ statusUpdate' = [statusUpdate EXCEPT ![i] = SignalStatus(@)]
            /\ hist' = [c \in Calls |->
                         IF calls[c].pc = "wait" /\ calls[c].dev = i
                           THEN [hist[c] EXCEPT !.applied = TRUE]
                           ELSE hist[c]]
  /\ applyLog' = Append(applyLog,
       [n |-> received, dev |-> i, payload |-> routed.payload])
  /\ UNCHANGED <<lifecycleVars, wg, received, senderPc, cmd, scanPc, ticks,
                 handlerPc, calls, last, panicked>>
  /\ UNCHANGED <<statusLog, observed, routeLog, scanSent, statusOK, typesVars,
                 dispatchVars, fieldVars>>

\* A handler that takes the Message the listener is sending on the response
\* channel of any Device.
Handler_Apply_Any(i) ==
  /\ ~panicked
  /\ listenerPc = "route"
  /\ i \in Registered
  /\ handlerPc[i] = "run"
  /\ listenerPc' = "select"
  /\ routed' = [dev |-> 0, payload |-> NoMessage]
  /\ IF routed.payload.type = "scanResponse"
       THEN /\ devices' = [devices EXCEPT ![i] = ApplyScan(@, routed.payload, TimeNow)]
            /\ UNCHANGED <<statusUpdate, hist>>
       ELSE /\ devices' = [devices EXCEPT ![i] = ApplyStatus(@, routed.payload, TimeNow)]
            /\ statusUpdate' = [statusUpdate EXCEPT ![i] = SignalStatus(@)]
            /\ hist' = [c \in Calls |->
                         IF calls[c].pc = "wait" /\ calls[c].dev = i
                           THEN [hist[c] EXCEPT !.applied = TRUE]
                           ELSE hist[c]]
  /\ applyLog' = Append(applyLog,
       [n |-> received, dev |-> i, payload |-> routed.payload])
  /\ UNCHANGED <<lifecycleVars, wg, received, senderPc, cmd, scanPc, ticks,
                 handlerPc, calls, last, panicked>>
  /\ UNCHANGED <<statusLog, observed, routeLog, scanSent, statusOK, typesVars,
                 dispatchVars,
                 fieldVars>>

\* device.go 42-72: the handler takes the Message the listener is sending on
\* d.response and applies it.
Handler_Apply(i) ==
  /\ ~panicked
  /\ listenerPc = "route"
  /\ routed.dev = i
  /\ handlerPc[i] = "run"
  /\ listenerPc' = "select"
  /\ routed' = [dev |-> 0, payload |-> NoMessage]
  /\ IF routed.payload.type = "scanResponse"
       THEN /\ devices' = [devices EXCEPT ![i] = ApplyScan(@, routed.payload, TimeNow)]
            /\ UNCHANGED <<statusUpdate, hist>>
       ELSE /\ devices' = [devices EXCEPT ![i] = ApplyStatus(@, routed.payload, TimeNow)]
            /\ statusUpdate' = [statusUpdate EXCEPT ![i] = SignalStatus(@)]
            /\ hist' = [c \in Calls |->
                         IF calls[c].pc = "wait" /\ calls[c].dev = i
                           THEN [hist[c] EXCEPT !.applied = TRUE]
                           ELSE hist[c]]
  /\ applyLog' = Append(applyLog,
       [n |-> received, dev |-> i, payload |-> routed.payload])
  /\ UNCHANGED <<lifecycleVars, wg, received, senderPc, cmd, scanPc, ticks,
                 handlerPc, calls, last, panicked>>
  /\ UNCHANGED <<statusLog, observed, routeLog, scanSent, statusOK, typesVars,
                 dispatchVars,
                 fieldVars>>

\* device.go 39-41: ctx.Done() is ready; the handler returns.
Handler_Exit(i) ==
  /\ ~panicked
  /\ i \in Registered
  /\ handlerPc[i] = "run"
  /\ ctxDone
  /\ handlerPc' = [handlerPc EXCEPT ![i] = "done"]
  /\ UNCHANGED <<lifecycleVars, wg, listenerVars, senderPc, cmd, scanPc,
                 ticks, devices, statusUpdate, callVars, panicked>>
  /\ UNCHANGED <<historyVars, typesVars, dispatchVars, fieldVars>>

\* ---------------------------------------------------- the command sender
\* controller.go 204: msg := Message{"239.255.255.250", scan}.
ScanMessage ==
  [type |-> "request", ip |-> MulticastIP, cmd |-> "scan", value |-> "reserve"]

\* controller.go 152: the receive of "for cmd := range c.command".  A closed
\* channel ends the loop (148-151: wg.Done); a sender already blocked on the
\* channel hands its Message over; otherwise the goroutine parks.
Sender_Range ==
  /\ ~panicked
  /\ senderPc = "range"
  /\ IF commandClosed
       THEN /\ senderPc' = "done"
            /\ wg' = wg - 1
            /\ UNCHANGED <<cmd, scanPc>>
       ELSE IF scanPc = "blocked"
         THEN /\ senderPc' = "busy"
              /\ cmd' = ScanMessage
              /\ scanPc' = "select"
              /\ UNCHANGED wg
         ELSE /\ senderPc' = "parked"
              /\ UNCHANGED <<wg, cmd, scanPc>>
  /\ scanSent' = IF scanPc' = scanPc THEN scanSent ELSE scanSent + 1
  /\ UNCHANGED <<lifecycleVars, listenerVars, ticks, deviceVars, callVars,
                 panicked>>
  /\ UNCHANGED <<statusLog, observed, routeLog, applyLog, statusOK, typesVars,
                 dispatchVars,
                 fieldVars>>

\* controller.go 152, 148-151: close(c.command) wakes the parked receiver;
\* the loop ends and the goroutine calls wg.Done.
Sender_Closed ==
  /\ ~panicked
  /\ senderPc = "parked"
  /\ commandClosed
  /\ senderPc' = "done"
  /\ wg' = wg - 1
  /\ UNCHANGED <<lifecycleVars, listenerVars, cmd, scanPc, ticks, deviceVars,
                 callVars, panicked>>
  /\ UNCHANGED <<historyVars, typesVars, dispatchVars, fieldVars>>

\* controller.go 153-185: marshal, pick the port, resolve, dial, write once,
\* close; on any error log and continue.  Either way the Message is gone.
Sender_Write ==
  /\ ~panicked
  /\ senderPc = "busy"
  /\ senderPc' = "range"
  /\ cmd' = NoMessage
  /\ UNCHANGED <<lifecycleVars, wg, listenerVars, scanPc, ticks, deviceVars,
                 callVars, panicked>>
  /\ UNCHANGED <<historyVars, typesVars, dispatchVars, fieldVars>>

\* ---------------------------------------------------- the periodic scan
\* controller.go 207 and 215: c.command <- msg, a blocking send.  On a closed
\* channel it panics; with the receiver parked it hands over; otherwise the
\* goroutine blocks on the channel.
Scan_Send ==
  /\ ~panicked
  /\ scanPc = "send"
  /\ IF commandClosed
       THEN /\ scanPc' = "panic"
            /\ panicked' = TRUE
            /\ UNCHANGED <<senderPc, cmd>>
       ELSE IF senderPc = "parked"
         THEN /\ scanPc' = "select"
              /\ senderPc' = "busy"
              /\ cmd' = ScanMessage
              /\ UNCHANGED panicked
         ELSE /\ scanPc' = "blocked"
              /\ UNCHANGED <<senderPc, cmd, panicked>>
  /\ scanSent' = IF scanPc' = "select" THEN scanSent + 1 ELSE scanSent
  /\ UNCHANGED <<lifecycleVars, wg, listenerVars, ticks, deviceVars,
                 callVars>>
  /\ UNCHANGED <<statusLog, observed, routeLog, applyLog, statusOK, typesVars,
                 dispatchVars,
                 fieldVars>>

\* controller.go 207 and 215: close(c.command) wakes the sender blocked on
\* the channel, which panics (send on closed channel).
Scan_BlockedClosed ==
  /\ ~panicked
  /\ scanPc = "blocked"
  /\ commandClosed
  /\ scanPc' = "panic"
  /\ panicked' = TRUE
  /\ UNCHANGED <<lifecycleVars, wg, listenerVars, senderPc, cmd, ticks,
                 deviceVars, callVars>>
  /\ UNCHANGED <<historyVars, typesVars, dispatchVars, fieldVars>>

\* A periodic scan that takes a tick and sends nothing.
Scan_Tick_Idle ==
  /\ ~panicked
  /\ scanPc = "select"
  /\ ticks < MaxTicks
  /\ ticks' = ticks + 1
  /\ scanPc' = "select"
  /\ UNCHANGED <<lifecycleVars, wg, listenerVars, senderPc, cmd, deviceVars,
                 callVars, panicked>>
  /\ UNCHANGED <<historyVars, typesVars, dispatchVars, fieldVars>>

\* controller.go 213-215: the ticker fires (every 60 s) and the select takes
\* that case; Go picks among the ready cases at random, so this can happen
\* with ctx.Done() ready too.
Scan_Tick ==
  /\ ~panicked
  /\ scanPc = "select"
  /\ ticks < MaxTicks
  /\ ticks' = ticks + 1
  /\ scanPc' = "send"
  /\ UNCHANGED <<lifecycleVars, wg, listenerVars, senderPc, cmd, deviceVars,
                 callVars, panicked>>
  /\ UNCHANGED <<historyVars, typesVars, dispatchVars, fieldVars>>

\* controller.go 211-212, 193-198: ctx.Done() is ready; return, wg.Done.
Scan_Exit ==
  /\ ~panicked
  /\ scanPc = "select"
  /\ ctxDone
  /\ scanPc' = "done"
  /\ wg' = wg - 1
  /\ UNCHANGED <<lifecycleVars, listenerVars, senderPc, cmd, ticks,
                 deviceVars, callVars, panicked>>
  /\ UNCHANGED <<historyVars, typesVars, dispatchVars, fieldVars>>

\* ------------------------------------------------ the device command methods
Ops == {"TurnOn", "TurnOff", "Toggle", "SetBrightness", "SetColor",
        "SetColorKelvin"}

\* Command Messages in which Toggle turns a Device on that is cached as on.
CommandMessage_ToggleOn(d, op) ==
  [type |-> "request", ip |-> d.ip,
   cmd |-> CASE op \in {"TurnOn", "TurnOff", "Toggle"} -> "turn"
             [] op = "SetBrightness" -> "brightness"
             [] op = "SetColor" -> "colorwc"
             [] op = "SetColorKelvin" -> "colorKelvin",
   value |-> CASE op \in {"TurnOn", "Toggle"} -> 1
               [] op = "TurnOff" -> 0
               [] op = "SetBrightness" -> 75
               [] op = "SetColor" -> NewColor(255, 0, 0)
               [] op = "SetColorKelvin" -> 3500]

\* device.go 130-216: the Message each method builds for device d.  Toggle
\* (162-168) reads d.state and calls TurnOff or TurnOn.  The arguments of the
\* three setters are those of the package's examples.
CommandMessage(d, op) ==
  [type |-> "request", ip |-> d.ip,
   cmd |-> CASE op \in {"TurnOn", "TurnOff", "Toggle"} -> "turn"
             [] op = "SetBrightness" -> "brightness"
             [] op = "SetColor" -> "colorwc"
             [] op = "SetColorKelvin" -> "colorKelvin",
   value |-> CASE op = "TurnOn" -> 1
               [] op = "TurnOff" -> 0
               [] op = "Toggle" -> (IF d.state = 1 THEN 0 ELSE 1)
               [] op = "SetBrightness" -> 75
               [] op = "SetColor" -> NewColor(255, 0, 0)
               [] op = "SetColorKelvin" -> 3500]

\* Calls are numbered in the order they are made.
CanCall(c) ==
  /\ MoreEvents
  /\ calls[c].pc = "idle"
  /\ \A o \in Calls : o < c => calls[o].pc # "idle"

\* The fields a status response sets, and lastSeen.
StatusFields(d) == <<d.state, d.brightness, d.color, d.colorKelvin, d.seen>>

\* The record of a call that returns at its enqueue step: RequestStatus, or
\* one of the six command methods (they share the enqueue step).
Immediate(op, result) ==
  [op |-> IF op \in {"RequestStatus", "Toggle"} THEN op ELSE "command",
   result |-> result, waited |-> FALSE, applied |-> FALSE,
   shared |-> FALSE, unchanged |-> TRUE, canceled |-> ctxDone]

\* The record of a RequestStatus call that returns from its wait: what hist
\* has on it, whether the device's fields are what they were when the call
\* enqueued its request, and whether cancellation has fired.
AfterWait(c, result) ==
  [op |-> "RequestStatus", result |-> result, waited |-> TRUE,
   applied |-> hist[c].applied, shared |-> hist[c].shared,
   unchanged |-> (StatusFields(devices[calls[c].dev]) = hist[c].before),
   canceled |-> ctxDone]

\* What the runtime does with "case d.command <- msg" in a select: a closed
\* channel makes the case ready and the send panics; a parked receiver makes
\* it ready and takes the Message; otherwise the case is not ready.
SendCase ==
  IF commandClosed THEN "panic"
  ELSE IF senderPc = "parked" THEN "sent"
  ELSE "notready"

\* device.go 137-142 (and 153-158, 178-183, 194-199, 210-215): the select
\* with the send and a default case.
Call_Command(c, i, op) ==
  /\ ~panicked
  /\ CanCall(c)
  /\ i \in Registered
  /\ CASE SendCase = "panic" ->
            /\ calls' = [calls EXCEPT ![c] =
                 [pc |-> "panic", op |-> op, dev |-> i]]
            /\ panicked' = TRUE
            /\ UNCHANGED <<senderPc, cmd, last>>
       [] SendCase = "sent" ->
            /\ calls' = [calls EXCEPT ![c] = DoneCall]
            /\ last' = Immediate(op, "nil")
            /\ senderPc' = "busy"
            /\ cmd' = CommandMessage(devices[i], op)
            /\ UNCHANGED panicked
       [] SendCase = "notready" ->
            /\ calls' = [calls EXCEPT ![c] = DoneCall]
            /\ last' = Immediate(op, "blocked")
            /\ UNCHANGED <<senderPc, cmd, panicked>>
  /\ UNCHANGED <<lifecycleVars, wg, listenerVars, scanPc, ticks, deviceVars,
                 hist>>
  /\ UNCHANGED <<historyVars, typesVars, dispatchVars, fieldVars>>

\* ------------------------------------------------------ Device.RequestStatus
\* device.go 221-227: Message{IP: d.ip, Payload: devStatus request}.
StatusRequest(d) ==
  [type |-> "request", ip |-> d.ip, cmd |-> "devStatus", value |-> "none"]

\* The other RequestStatus calls waiting on device i.
Waiting(c, i) ==
  {o \in Calls \ {c} : calls[o].pc = "wait" /\ calls[o].dev = i}

\* device.go 226-232: the first select: the send, ctx.Done() and a default.
\* Go picks among the ready cases at random; default runs when none is ready.
RS_Enqueue(c, i) ==
  /\ ~panicked
  /\ CanCall(c)
  /\ i \in Registered
  /\ \/ /\ SendCase = "panic"
        /\ calls' = [calls EXCEPT ![c] =
             [pc |-> "panic", op |-> "RequestStatus", dev |-> i]]
        /\ panicked' = TRUE
        /\ UNCHANGED <<senderPc, cmd, hist, last>>
     \/ /\ SendCase = "sent"
        /\ calls' = [calls EXCEPT ![c] =
             [pc |-> "wait", op |-> "RequestStatus", dev |-> i]]
        /\ senderPc' = "busy"
        /\ cmd' = StatusRequest(devices[i])
        /\ hist' = [o \in Calls |->
                     IF o = c
                       THEN [applied |-> FALSE, shared |-> Waiting(c, i) # {},
                             before |-> StatusFields(devices[i])]
                     ELSE IF o \in Waiting(c, i)
                       THEN [hist[o] EXCEPT !.shared = TRUE]
                     ELSE hist[o]]
        /\ UNCHANGED <<last, panicked>>
     \/ /\ ctxDone
        /\ calls' = [calls EXCEPT ![c] = DoneCall]
        /\ last' = Immediate("RequestStatus", "canceled")
        /\ UNCHANGED <<senderPc, cmd, hist, panicked>>
     \/ /\ SendCase = "notready"
        /\ ~ctxDone
        /\ calls' = [calls EXCEPT ![c] = DoneCall]
        /\ last' = Immediate("RequestStatus", "blocked")
        /\ UNCHANGED <<senderPc, cmd, hist, panicked>>
  /\ UNCHANGED <<lifecycleVars, wg, listenerVars, scanPc, ticks, deviceVars>>
  /\ UNCHANGED <<historyVars, typesVars, dispatchVars, fieldVars>>

\* A RequestStatus that returns nil on a buffered value and leaves it there.
RS_Status_Peek(c) ==
  /\ ~panicked
  /\ calls[c].pc = "wait"
  /\ statusUpdate[calls[c].dev] > 0
  /\ UNCHANGED statusUpdate
  /\ calls' = [calls EXCEPT ![c] = DoneCall]
  /\ hist' = [hist EXCEPT ![c] = NoHist]
  /\ last' = AfterWait(c, "nil")
  /\ UNCHANGED <<lifecycleVars, wg, listenerVars, senderPc, cmd, scanPc,
                 ticks, devices, handlerPc, panicked>>
  /\ statusOK' = [statusOK EXCEPT ![calls[c].dev] = @ + 1]
  /\ UNCHANGED <<statusLog, observed, routeLog, applyLog, scanSent, typesVars,
                 dispatchVars, fieldVars>>

\* device.go 235-237: a value is received from d.statusUpdate; return nil.
RS_Status(c) ==
  /\ ~panicked
  /\ calls[c].pc = "wait"
  /\ statusUpdate[calls[c].dev] > 0
  /\ statusUpdate' = [statusUpdate EXCEPT ![calls[c].dev] = @ - 1]
  /\ calls' = [calls EXCEPT ![c] = DoneCall]
  /\ hist' = [hist EXCEPT ![c] = NoHist]
  /\ last' = AfterWait(c, "nil")
  /\ UNCHANGED <<lifecycleVars, wg, listenerVars, senderPc, cmd, scanPc,
                 ticks, devices, handlerPc, panicked>>
  /\ statusOK' = [statusOK EXCEPT ![calls[c].dev] = @ + 1]
  /\ UNCHANGED <<statusLog, observed, routeLog, applyLog, scanSent, typesVars,
                 dispatchVars, fieldVars>>

\* device.go 238-239: the 5 s timer fires.  The timer is created when the
\* select is entered, and a value sent on d.statusUpdate is handed to a
\* parked receiver by the send itself, so the timer case is taken only with
\* nothing buffered in d.statusUpdate.
RS_Timeout(c) ==
  /\ ~panicked
  /\ calls[c].pc = "wait"
  /\ statusUpdate[calls[c].dev] = 0
  /\ calls' = [calls EXCEPT ![c] = DoneCall]
  /\ hist' = [hist EXCEPT ![c] = NoHist]
  /\ last' = AfterWait(c, "timeout")
  /\ UNCHANGED <<lifecycleVars, wg, listenerVars, senderPc, cmd, scanPc,
                 ticks, deviceVars, panicked>>
  /\ UNCHANGED <<historyVars, typesVars, dispatchVars, fieldVars>>

\* device.go 240-241: ctx.Done() is ready.
RS_Canceled(c) ==
  /\ ~panicked
  /\ calls[c].pc = "wait"
  /\ ctxDone
  /\ calls' = [calls EXCEPT ![c] = DoneCall]
  /\ hist' = [hist EXCEPT ![c] = NoHist]
  /\ last' = AfterWait(c, "canceled")
  /\ UNCHANGED <<lifecycleVars, wg, listenerVars, senderPc, cmd, scanPc,
                 ticks, deviceVars, panicked>>
  /\ UNCHANGED <<historyVars, typesVars, dispatchVars, fieldVars>>

\* ------------------------------------------------------- the specification
Receive == \E dg \in Datagrams : Listener_Receive(dg)

HandlerApply == \E i \in Registered : Handler_Apply(i)

HandlerExit == \E i \in Registered : Handler_Exit(i)

CallCommand ==
  \E c \in Calls, i \in Registered, op \in Ops : Call_Command(c, i, op)

RequestStatusEnqueue == \E c \in Calls, i \in Registered : RS_Enqueue(c, i)

RequestStatusStatus == \E c \in Calls : RS_Status(c)

RequestStatusTimeout == \E c \in Calls : RS_Timeout(c)

RequestStatusCanceled == \E c \in Calls : RS_Canceled(c)

Next ==
  \/ Start_Setup
  \/ Start_GoListener
  \/ Start_GoSender
  \/ Start_GoScan
  \/ Start_CloseConn
  \/ Start_CloseCommand
  \/ Start_Return
  \/ Shutdown_Cancel
  \/ Shutdown_Return
  \/ Listener_Exit
  \/ Listener_Default
  \/ Listener_ReadError
  \/ Receive
  \/ HandlerApply
  \/ HandlerExit
  \/ Sender_Range
  \/ Sender_Closed
  \/ Sender_Write
  \/ Scan_Send
  \/ Scan_BlockedClosed
  \/ Scan_Tick
  \/ Scan_Exit
  \/ CallCommand
  \/ RequestStatusEnqueue
  \/ RequestStatusStatus
  \/ RequestStatusTimeout
  \/ RequestStatusCanceled

Spec == Init /\ [][Next]_vars

\* The Go scheduler runs every goroutine that can run: a handler to which the
\* listener is sending takes the Message, and a listener at the top of its
\* loop goes on.
FairSpec ==
  /\ Init
  /\ [][Next]_vars
  /\ WF_vars(HandlerApply)
  /\ WF_vars(Listener_Default)

\* ============================================================ value types
\* The unsigned arguments the constructors are called with: the values around
\* each range's ends, the spec's examples and a large one.
UintInputs ==
  {0, 1, 99, 100, 101, 150, 254, 255, 256, 300, 500, 1999, 2000, 2001, 3500,
   8999, 9000, 9001, 20000, 2147483647}

ChannelInputs == {0, 1, 254, 255, 256, 300, 2147483647}

\* A NewBrightness that returns its argument as it is.
NewBrightness_NoClamp(value) == value

RECURSIVE NewBrightness(_)
\* types.go 92-97.
NewBrightness(value) ==
  IF value > 100 THEN NewBrightness(100) ELSE value

\* types.go 136-144: the two ifs, in the code's order.
NewColorKelvin(value) ==
  LET raised == IF value < 2000 THEN 2000 ELSE value
  IN IF raised > 9000 THEN 9000 ELSE raised

\* Bytes are strings of one character.  The components the inputs of
\* Version.UnmarshalJSON are built from: empty, integers (with leading zeros
\* and signs) and non-integers.
Components ==
  { <<>>, <<"0">>, <<"1">>, <<"0", "0">>, <<"1", "0">>, <<"a">>,
    <<"1", "a">>, <<"-", "1">>, <<"+", "2">> }

MaxComponents == 4

RECURSIVE Join(_)
\* The components joined with '.'.
Join(cs) ==
  IF Len(cs) = 1 THEN cs[1]
  ELSE cs[1] \o <<".">> \o Join(Tail(cs))

\* The inputs: one to MaxComponents components.
ComponentLists == UNION { [1..n -> Components] : n \in 1..MaxComponents }

\* The bytes of an input: its components joined with '.', bare or between
\* double quotes (as encoding/json passes a JSON string).
VersionBytes(cs, quoted) ==
  IF quoted THEN <<"\"">> \o Join(cs) \o <<"\"">> ELSE Join(cs)

\* The Version the receiver holds before the call.
VersionsBefore == {ZeroVersion, <<7, 8, 9>>}

RECURSIVE TrimLeft(_)
TrimLeft(b) ==
  IF b # <<>> /\ Head(b) = "\"" THEN TrimLeft(Tail(b)) ELSE b

RECURSIVE TrimRight(_)
TrimRight(b) ==
  IF b # <<>> /\ b[Len(b)] = "\""
    THEN TrimRight(SubSeq(b, 1, Len(b) - 1))
    ELSE b

\* types.go 36: bytes.Trim(b, `"`).
Trim(b) == TrimRight(TrimLeft(b))

RECURSIVE SplitFrom(_, _)
\* The components of b after the one being read, cur.
SplitFrom(b, cur) ==
  IF b = <<>> THEN <<cur>>
  ELSE IF Head(b) = "." THEN <<cur>> \o SplitFrom(Tail(b), <<>>)
  ELSE SplitFrom(Tail(b), Append(cur, Head(b)))

\* types.go 36: bytes.Split(..., []byte{'.'}).
Split(b) == SplitFrom(b, <<>>)

Digits == {"0", "1", "2", "3", "4", "5", "6", "7", "8", "9"}

DigitValue(c) ==
  CASE c = "0" -> 0 [] c = "1" -> 1 [] c = "2" -> 2 [] c = "3" -> 3
    [] c = "4" -> 4 [] c = "5" -> 5 [] c = "6" -> 6 [] c = "7" -> 7
    [] c = "8" -> 8 [] c = "9" -> 9

RECURSIVE Decimal(_, _)
\* The value of the digits ds read after acc.
Decimal(ds, acc) ==
  IF ds = <<>> THEN acc
  ELSE Decimal(Tail(ds), 10 * acc + DigitValue(Head(ds)))

\* strconv.Atoi: an optional sign, then one or more decimal digits.
Atoi(t) ==
  LET signed == t # <<>> /\ Head(t) \in {"+", "-"}
      ds == IF signed THEN Tail(t) ELSE t
      ok == ds # <<>> /\ \A k \in 1..Len(ds) : ds[k] \in Digits
  IN IF ~ok THEN [ok |-> FALSE, n |-> 0]
     ELSE [ok |-> TRUE,
           n |-> IF signed /\ Head(t) = "-" THEN 0 - Decimal(ds, 0)
                                            ELSE Decimal(ds, 0)]

\* types.go 35-64: Version.UnmarshalJSON on receiver v: the error returned
\* and the receiver afterwards.
UnmarshalJSON(v, b) ==
  LET val == Split(Trim(b))
  IN IF Len(val) # 3
       THEN [err |-> "ErrInvalidVersionFormat", v |-> v]
     ELSE IF ~Atoi(val[1]).ok
       THEN [err |-> "ErrInvalidVersionFormat", v |-> ZeroVersion]
     ELSE IF ~Atoi(val[2]).ok
       THEN [err |-> "ErrInvalidVersionFormat", v |-> ZeroVersion]
     ELSE IF ~Atoi(val[3]).ok
       THEN [err |-> "ErrInvalidVersionFormat", v |-> ZeroVersion]
     ELSE [err |-> "nil",
           v |-> <<Atoi(val[1]).n, Atoi(val[2]).n, Atoi(val[3]).n>>]

\* The calls: a function and its arguments.
TypeCalls ==
  [fn : {"NewBrightness", "NewColorKelvin"}, v : UintInputs]
    \cup [fn : {"NewColor"}, r : ChannelInputs, g : ChannelInputs,
          b : ChannelInputs]
    \cup [fn : {"UnmarshalJSON"}, v : VersionsBefore, cs : ComponentLists,
          quoted : BOOLEAN]

TypesInit ==
  /\ InitController
  /\ applying = NotApplying
  /\ reader = <<>>
  /\ args \in TypeCalls
  /\ ret = NoCall

Call_NewBrightness ==
  /\ args.fn = "NewBrightness"
  /\ ret = NoCall
  /\ ret' = [fn |-> args.fn, value |-> NewBrightness(args.v)]
  /\ UNCHANGED <<args, controllerVars, fieldVars>>

Call_NewColorKelvin ==
  /\ args.fn = "NewColorKelvin"
  /\ ret = NoCall
  /\ ret' = [fn |-> args.fn, value |-> NewColorKelvin(args.v)]
  /\ UNCHANGED <<args, controllerVars, fieldVars>>

Call_NewColor ==
  /\ args.fn = "NewColor"
  /\ ret = NoCall
  /\ ret' = [fn |-> args.fn, value |-> NewColor(args.r, args.g, args.b)]
  /\ UNCHANGED <<args, controllerVars, fieldVars>>

Call_UnmarshalJSON ==
  /\ args.fn = "UnmarshalJSON"
  /\ ret = NoCall
  /\ LET out == UnmarshalJSON(args.v, VersionBytes(args.cs, args.quoted))
     IN ret' = [fn |-> args.fn, err |-> out.err, v |-> out.v]
  /\ UNCHANGED <<args, controllerVars, fieldVars>>

TypesNext ==
  \/ Call_NewBrightness
  \/ Call_NewColorKelvin
  \/ Call_NewColor
  \/ Call_UnmarshalJSON

TypesSpec == TypesInit /\ [][TypesNext]_vars

\* ================================== the handler, one assignment at a time
\* Device.handler's case bodies are sequences of plain assignments to the
\* Device's fields (no lock), and the accessors are plain reads.  Here each
\* assignment is a step, for one Device and one routed Message.

\* device.go 50-57: the assignments of the scanResponse case, in order (the
\* four version fields are one field of the model).
ScanAssignments == <<"ip", "deviceID", "sku", "versions", "seen">>

\* device.go 61-65: the assignments of the devStatusResponse case, in order.
StatusAssignments == <<"state", "brightness", "color", "colorKelvin", "seen">>

Assignments(payload) ==
  IF payload.type = "scanResponse" THEN ScanAssignments ELSE StatusAssignments

\* One assignment of a case body.
Assign(d, field, payload, t) ==
  CASE field = "ip" -> [d EXCEPT !.ip = payload.ip]
    [] field = "deviceID" -> [d EXCEPT !.deviceID = payload.deviceID]
    [] field = "sku" -> [d EXCEPT !.sku = payload.sku]
    [] field = "versions" -> [d EXCEPT !.versions = payload.versions]
    [] field = "state" -> [d EXCEPT !.state = payload.onOff]
    [] field = "brightness" -> [d EXCEPT !.brightness = payload.brightness]
    [] field = "color" -> [d EXCEPT !.color = payload.color]
    [] field = "colorKelvin" -> [d EXCEPT !.colorKelvin = payload.colorKelvin]
    [] field = "seen" -> [d EXCEPT !.seen = t]

\* device.go 96-127 and 92-94: what the accessors return for Device d.
Accessors(d, now) ==
  [IP |-> d.ip, DeviceID |-> d.deviceID, SKU |-> d.sku,
   State |-> d.state, Brightness |-> d.brightness, Color |-> d.color,
   ColorKelvin |-> d.colorKelvin, Active |-> Active(d, now)]

\* The Devices a Message can be routed to: one the listener has just created
\* for source address ip, and one to which a scan response and a status
\* response from that address have been applied.
FreshDevice(ip) == NewDevice(ip)

KnownDevice(ip) ==
  ApplyStatus(
    ApplyScan(NewDevice(ip),
              [type |-> "scanResponse", ip |-> ip, deviceID |-> "1F:80:C5",
               sku |-> "H6001", versions |-> <<1, 0, 10>>],
              ProcessStart + 1),
    StatusA, ProcessStart + 2)

\* The listener is sending a Message on the response channel of the only
\* Device; Start has started the listener.
FieldInit ==
  /\ startPc = "listening"
  /\ shutdownPc = "idle"
  /\ ctxDone = FALSE
  /\ wg = 1
  /\ connClosed = FALSE
  /\ commandClosed = FALSE
  /\ listenerPc = "route"
  /\ senderPc = "none"
  /\ cmd = NoMessage
  /\ scanPc = "none"
  /\ ticks = 0
  /\ scanSent = 0
  /\ statusOK = <<0>>
  /\ targetAddr = NoTarget
  /\ accepted = <<>>
  /\ wire = <<>>
  /\ outcomes = <<>>
  /\ calls = [c \in Calls |-> IdleCall]
  /\ hist = [c \in Calls |-> NoHist]
  /\ last = NoReturn
  /\ panicked = FALSE
  /\ args = NoCall
  /\ ret = NoCall
  /\ handlerPc = <<"run">>
  /\ \E ip \in IPs, known \in BOOLEAN,
        payload \in ScanResponses \cup DevStatusResponses :
       /\ devices = <<IF known THEN KnownDevice(ip) ELSE FreshDevice(ip)>>
       /\ statusUpdate = <<IF known THEN 1 ELSE 0>>
       /\ received = IF known THEN 3 ELSE 1
       /\ observed = <<ProcessStart + (IF known THEN 3 ELSE 1)>>
       /\ statusLog =
            <<(IF known THEN <<StatusA>> ELSE <<>>)
                \o (IF payload.type = "devStatusResponse"
                      THEN <<payload>> ELSE <<>>)>>
       /\ routed = [dev |-> 1, payload |-> payload]
       /\ LET before ==
                IF known
                  THEN <<[n |-> 1, dev |-> 1,
                          payload |-> [type |-> "scanResponse", ip |-> ip,
                                       deviceID |-> "1F:80:C5", sku |-> "H6001",
                                       versions |-> <<1, 0, 10>>]],
                         [n |-> 2, dev |-> 1, payload |-> StatusA]>>
                  ELSE <<>>
          IN /\ applyLog = before
             /\ routeLog =
                  [k \in 1..Len(before) |->
                     [src |-> ip, n |-> before[k].n, dev |-> 1,
                      payload |-> before[k].payload]]
                  \o <<[src |-> ip, n |-> Len(before) + 1, dev |-> 1,
                        payload |-> payload]>>
       /\ applying = NotApplying
  /\ reader = <<>>

\* device.go 42-47: the handler receives the Message from d.response and
\* enters the case of its payload's type; the listener goes on.
Field_Take ==
  /\ listenerPc = "route"
  /\ handlerPc[1] = "run"
  /\ applying.step = "none"
  /\ listenerPc' = "select"
  /\ routed' = [dev |-> 0, payload |-> NoMessage]
  /\ applying' = [step |-> "assign", next |-> 1, payload |-> routed.payload,
                  before |-> devices[1]]
  /\ applyLog' = Append(applyLog,
       [n |-> received, dev |-> 1, payload |-> routed.payload])
  /\ UNCHANGED <<lifecycleVars, wg, received, senderPc, cmd, scanPc, ticks,
                 deviceVars, callVars, panicked, statusLog, observed,
                 routeLog, scanSent, statusOK, typesVars, dispatchVars,
                 reader>>

\* device.go 50-57 and 61-65: the next assignment of the case body.
Field_Assign ==
  /\ applying.step = "assign"
  /\ LET todo == Assignments(applying.payload)
         k == applying.next
     IN /\ devices' = <<Assign(devices[1], todo[k], applying.payload, TimeNow)>>
        /\ applying' =
             [applying EXCEPT
                !.next = IF k < Len(todo) THEN k + 1 ELSE 0,
                !.step = IF k < Len(todo) THEN "assign"
                         ELSE IF applying.payload.type = "scanResponse"
                           THEN "done" ELSE "signal"]
  /\ UNCHANGED <<lifecycleVars, wg, listenerVars, senderPc, cmd, scanPc,
                 ticks, handlerPc, statusUpdate, callVars, panicked,
                 historyVars, typesVars, dispatchVars, reader>>

\* device.go 66-69: the non-blocking send on d.statusUpdate.
Field_Signal ==
  /\ applying.step = "signal"
  /\ statusUpdate' = <<SignalStatus(statusUpdate[1])>>
  /\ applying' = [applying EXCEPT !.step = "done"]
  /\ UNCHANGED <<lifecycleVars, wg, listenerVars, senderPc, cmd, scanPc,
                 ticks, devices, handlerPc, callVars, panicked, historyVars,
                 typesVars, dispatchVars, reader>>

\* device.go 92-127: a caller reads the Device through its accessors, at one
\* moment of the handler's run.
Reader_Observe ==
  /\ reader = <<>>
  /\ reader' = <<Accessors(devices[1], TimeNow)>>
  /\ UNCHANGED <<controllerVars, typesVars, applying>>

FieldNext ==
  \/ Field_Take
  \/ Field_Assign
  \/ Field_Signal
  \/ Reader_Observe

FieldSpec == FieldInit /\ [][FieldNext]_vars

\* ================================ the command sender, one call at a time
\* The body of the command sender's loop (controller.go 153-185) as the calls
\* it makes, each of which can fail: json.Marshal, the choice of the port,
\* net.ResolveUDPAddr, net.DialUDP and deviceConn.Write.

\* controller.go 38: the port the listener is bound to.
ListenPort == 4002

\* controller.go 161: the port discovery requests are sent to.
DiscoveryPort == 4001

\* controller.go 163: the port device commands are sent to.
CommandPort == 4003

\* A choice of port that sends everything to the command port.
Target_CommandOnly(m) == [ip |-> m.ip, port |-> CommandPort]

\* controller.go 159-164: target is "<cmd.IP>:4001" when cmd.IP is the string
\* "239.255.255.250", and "<cmd.IP>:4003" otherwise.
Target(m) ==
  IF m.ip = "239.255.255.250"
    THEN [ip |-> m.ip, port |-> DiscoveryPort]
    ELSE [ip |-> m.ip, port |-> CommandPort]

\* Start has started its three goroutines and waits for ctx.Done(); the
\* listener has read a scan response from one source address and the handler
\* of its Device has applied it; the periodic scan has yet to send.
DispatchInit ==
  /\ startPc = "running"
  /\ shutdownPc = "idle"
  /\ ctxDone = FALSE
  /\ wg = 3
  /\ connClosed = FALSE
  /\ commandClosed = FALSE
  /\ listenerPc = "select"
  /\ routed = [dev |-> 0, payload |-> NoMessage]
  /\ senderPc = "range"
  /\ cmd = NoMessage
  /\ scanPc = "send"
  /\ ticks = 0
  /\ scanSent = 0
  /\ statusOK = <<0>>
  /\ handlerPc = <<"run">>
  /\ statusUpdate = <<0>>
  /\ calls = [c \in Calls |-> IdleCall]
  /\ hist = [c \in Calls |-> NoHist]
  /\ last = NoReturn
  /\ received = 1
  /\ panicked = FALSE
  /\ statusLog = <<(<<>>)>>
  /\ observed = <<ProcessStart + 1>>
  /\ \E src \in IPs, payload \in ScanResponses :
       /\ devices = <<ApplyScan(NewDevice(src), payload, ProcessStart + 1)>>
       /\ routeLog = <<[src |-> src, n |-> 1, dev |-> 1, payload |-> payload]>>
       /\ applyLog = <<[n |-> 1, dev |-> 1, payload |-> payload]>>
  /\ targetAddr = NoTarget
  /\ accepted = <<>>
  /\ wire = <<>>
  /\ outcomes = <<>>
  /\ args = NoCall
  /\ ret = NoCall
  /\ applying = NotApplying
  /\ reader = <<>>

\* The loop body ends (a continue after an error, or its last statement):
\* the Message is gone and the goroutine is back at the range.
Dispatch_End(outcome) ==
  /\ senderPc' = "range"
  /\ cmd' = NoMessage
  /\ targetAddr' = NoTarget
  /\ outcomes' = Append(outcomes, outcome)

\* controller.go 153-157: json.Marshal(cmd.Payload).
Dispatch_Marshal ==
  /\ ~panicked
  /\ senderPc = "busy"
  /\ accepted' = Append(accepted, cmd)
  /\ \E err \in BOOLEAN :
       IF err THEN Dispatch_End("marshal")
              ELSE /\ senderPc' = "target"
                   /\ UNCHANGED <<cmd, targetAddr, outcomes>>
  /\ UNCHANGED <<lifecycleVars, wg, listenerVars, scanPc, ticks, deviceVars,
                 callVars, panicked, historyVars, typesVars, fieldVars, wire>>

\* controller.go 159-164: the choice of the port.
Dispatch_Target ==
  /\ ~panicked
  /\ senderPc = "target"
  /\ targetAddr' = Target(cmd)
  /\ senderPc' = "resolve"
  /\ UNCHANGED <<lifecycleVars, wg, listenerVars, scanPc, ticks, deviceVars,
                 callVars, panicked, historyVars, typesVars, fieldVars, cmd,
                 accepted, wire, outcomes>>

\* controller.go 166-170: net.ResolveUDPAddr("udp4", target).
Dispatch_Resolve ==
  /\ ~panicked
  /\ senderPc = "resolve"
  /\ \E err \in BOOLEAN :
       IF err THEN Dispatch_End("resolve")
              ELSE /\ senderPc' = "dial"
                   /\ UNCHANGED <<cmd, targetAddr, outcomes>>
  /\ UNCHANGED <<lifecycleVars, wg, listenerVars, scanPc, ticks, deviceVars,
                 callVars, panicked, historyVars, typesVars, fieldVars,
                 accepted, wire>>

\* controller.go 172-176: net.DialUDP("udp4", nil, addr).
Dispatch_Dial ==
  /\ ~panicked
  /\ senderPc = "dial"
  /\ \E err \in BOOLEAN :
       IF err THEN Dispatch_End("dial")
              ELSE /\ senderPc' = "write"
                   /\ UNCHANGED <<cmd, targetAddr, outcomes>>
  /\ UNCHANGED <<lifecycleVars, wg, listenerVars, scanPc, ticks, deviceVars,
                 callVars, panicked, historyVars, typesVars, fieldVars,
                 accepted, wire>>

\* A command sender that writes again when the write failed.
Dispatch_Write_Retry ==
  /\ ~panicked
  /\ senderPc = "write"
  /\ wire' = Append(wire, [k |-> Len(accepted), to |-> targetAddr, msg |-> cmd])
  /\ \E err \in BOOLEAN :
       IF err THEN UNCHANGED <<senderPc, cmd, targetAddr, outcomes>>
              ELSE Dispatch_End("sent")
  /\ UNCHANGED <<lifecycleVars, wg, listenerVars, scanPc, ticks, deviceVars,
                 callVars, panicked, historyVars, typesVars, fieldVars,
                 accepted>>

\* controller.go 178-185: deviceConn.Write(data), once; deviceConn.Close()
\* whether it failed or not.
Dispatch_Write ==
  /\ ~panicked
  /\ senderPc = "write"
  /\ wire' = Append(wire, [k |-> Len(accepted), to |-> targetAddr, msg |-> cmd])
  /\ \E err \in BOOLEAN : Dispatch_End(IF err THEN "write" ELSE "sent")
  /\ UNCHANGED <<lifecycleVars, wg, listenerVars, scanPc, ticks, deviceVars,
                 callVars, panicked, historyVars, typesVars, fieldVars,
                 accepted>>

\* device.go 130-143 and 171-184: calls of TurnOn and SetBrightness, a
\* method without an argument and one with.
DispatchCall ==
  \E c \in Calls, i \in Registered, op \in {"TurnOn", "SetBrightness"} :
    Call_Command(c, i, op)

\* The command sender with its producers (the periodic scan and the device
\* methods) and the close of c.command by Start after Shutdown's cancel.
DispatchNext ==
  \/ Shutdown_Cancel
  \/ Start_CloseConn
  \/ Start_CloseCommand
  \/ Sender_Range
  \/ Sender_Closed
  \/ Dispatch_Marshal
  \/ Dispatch_Target
  \/ Dispatch_Resolve
  \/ Dispatch_Dial
  \/ Dispatch_Write
  \/ Scan_Send
  \/ Scan_BlockedClosed
  \/ Scan_Tick
  \/ Scan_Exit
  \/ DispatchCall

DispatchSpec == DispatchInit /\ [][DispatchNext]_vars

\* ================================================================ claims
\* A step of the controller's own goroutines and of the Start and Shutdown
\* calls: everything but the arrival of a datagram and the device methods.
SystemStep ==
  \/ Start_Setup
  \/ Start_GoListener
  \/ Start_GoSender
  \/ Start_GoScan
  \/ Start_CloseConn
  \/ Start_CloseCommand
  \/ Start_Return
  \/ Shutdown_Return
  \/ Listener_Exit
  \/ Listener_Default
  \/ Listener_ReadError
  \/ HandlerApply
  \/ HandlerExit
  \/ Sender_Range
  \/ Sender_Closed
  \/ Sender_Write
  \/ Scan_Send
  \/ Scan_BlockedClosed
  \/ Scan_Tick
  \/ Scan_Exit

\* No background loop is running (it was never started, or it returned).
LoopsStopped ==
  /\ listenerPc \in {"none", "done"}
  /\ senderPc \in {"none", "done"}
  /\ scanPc \in {"none", "done"}

HandlersStopped == \A i \in Registered : handlerPc[i] = "done"

\* The listener is blocked sending to a handler that has returned.
ListenerStuck ==
  /\ ~panicked
  /\ listenerPc = "route"
  /\ handlerPc[routed.dev] = "done"

\* C1: once cancellation has fired, the listener, the command sender, the
\* periodic scan and every device handler terminate and Start and Shutdown
\* return.  As a property of single states: after cancellation there is no
\* state in which they have not all finished and none of them can take a
\* step.
C1_TerminatesAfterCancel ==
  ctxDone =>
    \/ /\ LoopsStopped
       /\ HandlersStopped
       /\ startPc \in {"failed", "returned"}
       /\ shutdownPc = "returned"
    \/ ENABLED SystemStep

\* C2: at the step in which a wg.Wait returns (Start's or Shutdown's), every
\* device handler that was started has exited, and no background loop is
\* running.
C2_WaitCoversHandlers ==
  [][ (\/ startPc # "returned" /\ startPc' = "returned"
       \/ shutdownPc # "returned" /\ shutdownPc' = "returned")
      => (LoopsStopped /\ HandlersStopped)' ]_vars

\* C3: Shutdown has not returned while a background loop is running or is
\* still going to be started by a Start call that is under way.
C3_ShutdownBlocksUntilExited ==
  shutdownPc = "returned" =>
    /\ LoopsStopped
    /\ startPc \notin {"bound", "listening", "sending"}

\* C4: no producer sends on c.command after close(c.command): neither the
\* periodic scan nor a device method.
C4_NoSendOnClosed ==
  /\ scanPc # "panic"
  /\ \A c \in Calls : calls[c].pc # "panic"

\* C5: the enqueue step of a device method never blocks: in the step in
\* which a call is made, either its Message is handed to the command sender
\* (which was parked and now holds it) or the call returns a delivery error
\* and the command sender is given nothing.
C5_EnqueueHandsOverOrFails ==
  [][ \A c \in Calls :
        (calls[c].pc = "idle" /\ calls'[c].pc # "idle") =>
          \/ /\ \/ calls'[c].pc = "wait"
                \/ calls'[c].pc = "done" /\ last'.result = "nil"
             /\ senderPc = "parked"
             /\ senderPc' = "busy"
             /\ cmd'.type = "request"
          \/ /\ calls'[c].pc = "done"
             /\ last'.result \in {"blocked", "canceled"}
             /\ UNCHANGED <<senderPc, cmd>> ]_vars

\* C6: a RequestStatus call that enqueued its request, and during which the
\* handler applied nothing to the device (so no status response, and state,
\* brightness, color, colorKelvin and lastSeen are what they were), does not
\* return success: it returns the timeout error, or the canceled error when
\* cancellation has fired.
C6_NoResponseGivesTimeout ==
  (last.waited /\ ~last.applied /\ last.unchanged) =>
    /\ last.result # "nil"
    /\ (last.result = "timeout" \/ last.canceled)

\* C7: a RequestStatus call that enqueued its request, during whose wait the
\* handler applied a devStatus response, and that was the only RequestStatus
\* outstanding on its device: while it waits and cancellation has not fired,
\* it can return success and cannot time out; when it returns, it does not
\* return the timeout error, and it returns success unless cancellation has
\* fired.
C7_ResponseGivesSuccess ==
  /\ \A c \in Calls :
       (/\ calls[c].pc = "wait"
        /\ hist[c].applied
        /\ ~hist[c].shared
        /\ ~ctxDone) =>
          (ENABLED RS_Status(c)) /\ ~(ENABLED RS_Timeout(c))
  /\ (last.waited /\ last.applied /\ ~last.shared) =>
       /\ last.result # "timeout"
       /\ (last.result = "nil" \/ last.canceled)

\* C7's case: a sole RequestStatus returned success after a response was
\* applied during its wait, with no cancellation.
C7_Witness ==
  /\ last.waited
  /\ last.applied
  /\ ~last.shared
  /\ ~last.canceled
  /\ last.result = "nil"

\* C8: every RequestStatus call returns, with success, the timeout error, the
\* canceled error or the delivery error: a call that was made has returned
\* with one of the four, or is waiting and one of its three returns can
\* happen, the canceled one once cancellation has fired.
C8_RequestStatusReturns ==
  /\ \A c \in Calls :
       calls[c].op = "RequestStatus" =>
         /\ calls[c].pc = "wait"
         /\ \/ ENABLED RS_Status(c)
            \/ ENABLED RS_Timeout(c)
            \/ ENABLED RS_Canceled(c)
         /\ ctxDone => ENABLED RS_Canceled(c)
  /\ last.op = "RequestStatus" =>
       last.result \in {"nil", "timeout", "canceled", "blocked"}

\* C9: the Device the listener registered for a source address is the one
\* DeviceByIP returns for that address, in every later state (so a later
\* datagram from that address finds it and registers nothing).
C9_ByIPFindsRegistered ==
  \A i \in Registered : DeviceByIP(devices[i].logger) = i

\* C10: a Device's ip never changes once the listener has created it.
C10_IPStable ==
  [][ \A i \in Registered : devices'[i].ip = devices[i].ip ]_vars

\* C12: every registered Device has brightness in 0..100, each color channel
\* in 0..255 and colorKelvin in 2000..9000.
C12_FieldsInRange ==
  \A i \in Registered :
    /\ devices[i].brightness <= 100
    /\ devices[i].color.r <= 255
    /\ devices[i].color.g <= 255
    /\ devices[i].color.b <= 255
    /\ devices[i].colorKelvin >= 2000
    /\ devices[i].colorKelvin <= 9000

\* The listener is sending a devStatusResponse to device i's handler.
StatusInFlight(i) ==
  /\ listenerPc = "route"
  /\ routed.dev = i
  /\ routed.payload.type = "devStatusResponse"

\* The four fields a devStatusResponse carries, as a Device holds them.
StatusOf(d) == <<d.state, d.brightness, d.color, d.colorKelvin>>

\* C13: when the devStatus responses the listener received for a Device have
\* all been applied, the Device's state, brightness, color and colorKelvin
\* are those of the latest one received: all four, none from an earlier one.
C13_LatestStatusWins ==
  \A i \in Registered :
    (statusLog[i] # <<>> /\ ~StatusInFlight(i)) =>
      LET B == statusLog[i][Len(statusLog[i])]
      IN StatusOf(devices[i]) =
           <<B.onOff, B.brightness, B.color, B.colorKelvin>>

\* C13's case: A then B, which differ in all four fields, were received from
\* one source address and both applied, with a second Device registered.
C13_Witness ==
  /\ Len(devices) = 2
  /\ statusLog[1] = <<StatusA, StatusB>>
  /\ ~StatusInFlight(1)
  /\ StatusOf(devices[1]) =
       <<StatusB.onOff, StatusB.brightness, StatusB.color, StatusB.colorKelvin>>

\* C14: a Toggle call whose Message the command sender takes sends "turn"
\* with value 0 exactly when the Device's cached state is 1 and value 1
\* otherwise, and no call of a command method changes a field of any Device.
C14_ToggleByCachedFlag ==
  [][ \A c \in Calls, i \in Registered :
        /\ (Call_Command(c, i, "Toggle") /\ SendCase = "sent") =>
              cmd' = [type |-> "request", ip |-> devices[i].ip, cmd |-> "turn",
                      value |-> IF devices[i].state = 1 THEN 0 ELSE 1]
        /\ \A op \in Ops : Call_Command(c, i, op) => devices' = devices ]_vars

\* C14's case: the command sender holds the turn-off Message of the latest
\* call, a Toggle that returned nil, for a Device cached as on.
C14_Witness ==
  /\ last.op = "Toggle"
  /\ last.result = "nil"
  /\ senderPc = "busy"
  /\ cmd.type = "request"
  /\ cmd.cmd = "turn"
  /\ cmd.value = 0
  /\ \E i \in Registered : devices[i].ip = cmd.ip /\ devices[i].state = 1

\* C15: when Start has returned a setup error, the listener, the command
\* sender and the periodic scan have not been started, the WaitGroup counts
\* nothing, no Device exists and no Message has been given to c.command.
C15_FailedStartStartsNothing ==
  startPc = "failed" =>
    /\ listenerPc = "none"
    /\ senderPc = "none"
    /\ scanPc = "none"
    /\ wg = 0
    /\ devices = <<>>
    /\ cmd = NoMessage
    /\ \A c \in Calls : calls[c].pc = "idle"

\* C15's case: Start returned a setup error, and Shutdown was called and
\* returned afterwards.
C15_Witness ==
  /\ startPc = "failed"
  /\ shutdownPc = "returned"
  /\ ctxDone

\* The instants at which a caller may ask: now, and up to five minutes on.
Instants == TimeNow..(TimeNow + FiveMinutes)

\* C16: at every instant, Active() of a registered Device is true exactly
\* when the latest datagram read from it is less than five minutes old.
C16_ActiveIffRecentlyObserved ==
  \A i \in Registered : \A now \in Instants :
    Active(devices[i], now) <=> (now - observed[i] < FiveMinutes)

Min(a, b) == IF a <= b THEN a ELSE b
Max(a, b) == IF a >= b THEN a ELSE b

\* C17: NewBrightness(v) is min(v, 100), NewColorKelvin(v) is
\* min(max(v, 2000), 9000), and each channel of NewColor(r, g, b) is
\* min(channel, 255).
C17_ConstructorsClamp ==
  /\ ret.fn = "NewBrightness" => ret.value = Min(args.v, 100)
  /\ ret.fn = "NewColorKelvin" => ret.value = Min(Max(args.v, 2000), 9000)
  /\ ret.fn = "NewColor" =>
       ret.value = [r |-> Min(args.r, 255), g |-> Min(args.g, 255),
                    b |-> Min(args.b, 255)]

\* C17's case: NewBrightness(150) returned 100.
C17_Witness ==
  /\ ret.fn = "NewBrightness"
  /\ args.v = 150
  /\ ret.value = 100

\* The components that are integers, and the integer each one is.
IntegerComponents ==
  { <<"0">>, <<"1">>, <<"0", "0">>, <<"1", "0">>, <<"-", "1">>, <<"+", "2">> }

IntegerOf(c) ==
  CASE c = <<"0">> -> 0
    [] c = <<"1">> -> 1
    [] c = <<"0", "0">> -> 0
    [] c = <<"1", "0">> -> 10
    [] c = <<"-", "1">> -> 0 - 1
    [] c = <<"+", "2">> -> 2

\* C18: Version.UnmarshalJSON succeeds with the three integers on an input of
\* exactly three integer components; on any other input it fails with
\* ErrInvalidVersionFormat and the Version is {0,0,0} afterwards, whatever it
\* was before.
C18_UnmarshalJSONResetsOnError ==
  ret.fn = "UnmarshalJSON" =>
    IF Len(args.cs) = 3 /\ \A k \in 1..3 : args.cs[k] \in IntegerComponents
      THEN /\ ret.err = "nil"
           /\ ret.v = <<IntegerOf(args.cs[1]), IntegerOf(args.cs[2]),
                        IntegerOf(args.cs[3])>>
      ELSE /\ ret.err = "ErrInvalidVersionFormat"
           /\ ret.v = ZeroVersion

\* The RequestStatus calls waiting on device i.
WaitingOn(i) == {c \in Calls : calls[c].pc = "wait" /\ calls[c].dev = i}

\* C19: when the handler applies a devStatusResponse while no RequestStatus
\* call is waiting on the Device, nothing is left in d.statusUpdate.
C19_UnawaitedSignalDropped ==
  [][ \A i \in Registered :
        (/\ Handler_Apply(i)
         /\ routed.payload.type = "devStatusResponse"
         /\ WaitingOn(i) = {}) => statusUpdate'[i] = 0 ]_vars

\* The Device after the handler has applied the whole Message it took.
Applied ==
  IF applying.payload.type = "scanResponse"
    THEN ApplyScan(applying.before, applying.payload, TimeNow)
    ELSE ApplyStatus(applying.before, applying.payload, TimeNow)

\* C20: what a caller reads through the accessors while the handler applies
\* a Message is the Device as it was before the Message or as it is with the
\* whole Message applied, never some fields of each; and when the handler is
\* through, seen is the instant of this Message.
C20_NoTornRead ==
  /\ (reader # <<>> /\ applying.step # "none") =>
       \/ reader[1] = Accessors(applying.before, TimeNow)
       \/ reader[1] = Accessors(Applied, TimeNow)
  /\ applying.step \in {"signal", "done"} => devices[1].seen = TimeNow

\* The arguments a caller may pass to the lookups: every address and id a
\* Device can hold, and ones no Device holds.
LookupIPs == IPs \cup {"", "10.0.0.9"}
LookupIDs == {"1F:80:C5", "", "00:00:00"}

\* The earliest registered index in m, 0 (ErrNoDeviceFound) for none.
Earliest(m) == IF m = {} THEN 0 ELSE CHOOSE i \in m : \A k \in m : i <= k

\* C11: DeviceByIP(ip) returns the earliest registered Device whose ip is the
\* argument and DeviceByID(id) the earliest whose deviceID is the argument;
\* each fails with ErrNoDeviceFound (0) exactly when no Device matches.
C11_LookupsFindEarliest ==
  /\ \A ip \in LookupIPs :
       DeviceByIP(ip) = Earliest({i \in Registered : devices[i].ip = ip})
  /\ \A id \in LookupIDs :
       DeviceByID(id) = Earliest({i \in Registered : devices[i].deviceID = id})

\* C11's case: two registered Devices hold the same ip and the same
\* deviceID, the lookups return the first, and a lookup of an absent key
\* fails.
C11_Witness ==
  /\ Len(devices) = 2
  /\ devices[1].ip = devices[2].ip
  /\ devices[1].deviceID = "1F:80:C5"
  /\ devices[2].deviceID = "1F:80:C5"
  /\ DeviceByIP(devices[2].ip) = 1
  /\ DeviceByID("1F:80:C5") = 1
  /\ DeviceByIP("10.0.0.9") = 0

\* A step of the listener goroutine: its select, its read, and the hand-over
\* of the Message it is sending on device.response.
ListenerStep ==
  \/ Listener_Exit
  \/ Listener_Default
  \/ Listener_ReadError
  \/ Receive
  \/ HandlerApply

\* C21: the listener never blocks indefinitely: while the process runs, in
\* every state in which the listener has not returned it can take a step (the
\* select, the read that a timeout bounds, or the hand-over of the decoded
\* Message to the Device's handler), also after cancellation has fired and
\* the handler of the target Device has returned.
C21_ListenerNeverStuck ==
  (~panicked /\ listenerPc \in {"select", "read", "route"}) =>
    ENABLED ListenerStep

\* The datagrams json.Unmarshal rejects: the envelope (controller.go 107) or
\* the payload of a scan or devStatus envelope (118, 129).
Undecodable == {dg \in Datagrams : ~dg.ok \/ dg.cmd = "invalid"}

\* C22: a datagram whose envelope or payload fails to decode is dropped with
\* no state change: the step in which the listener reads it leaves the
\* registry (the Devices, their order and their fields) as it was, whatever
\* its source address, and the listener is back at the top of its loop.
C22_UndecodableChangesNothing ==
  [][ \A dg \in Undecodable :
        Listener_Receive(dg) =>
          /\ devices' = devices
          /\ listenerPc' = "select" ]_vars

\* What the listener logged of a Message, without the source address: what
\* the handler sees of it.
AsTaken(m) == [n |-> m.n, dev |-> m.dev, payload |-> m.payload]

\* The Messages the listener sent that have been taken: all of them, but the
\* one it is sending now.
Taken ==
  IF listenerPc = "route" THEN SubSeq(routeLog, 1, Len(routeLog) - 1)
  ELSE routeLog

\* C23: the Messages sent to a Device are taken and applied by its handler in
\* the order the listener received them: the Messages taken so far, in the
\* order they were taken, are the Messages the listener sent, in the order it
\* read their datagrams, each taken by the handler of the Device it was sent
\* to; and the listener reads the next datagram only when the handler has
\* taken the Message before: at most the latest Message is not yet taken,
\* and it is the one the listener is sending.
C23_AppliedInReceiveOrder ==
  /\ applyLog = [k \in 1..Len(Taken) |-> AsTaken(Taken[k])]
  /\ \A j, k \in 1..Len(applyLog) : j < k => applyLog[j].n < applyLog[k].n
  /\ listenerPc = "route" =>
       /\ routeLog # <<>>
       /\ routed = [dev |-> routeLog[Len(routeLog)].dev,
                    payload |-> routeLog[Len(routeLog)].payload]
  /\ listenerPc # "route" => routed.dev = 0

\* C23's case: one Device has applied two Messages from the same source
\* address, a scan response and then a status response.
C23_Witness ==
  \E j, k \in 1..Len(applyLog) :
    /\ j < k
    /\ applyLog[j].dev = applyLog[k].dev
    /\ routeLog[j].src = routeLog[k].src
    /\ applyLog[j].payload.type = "scanResponse"
    /\ applyLog[k].payload.type = "devStatusResponse"
    /\ StatusOf(devices[applyLog[k].dev]) =
         <<applyLog[k].payload.onOff, applyLog[k].payload.brightness,
           applyLog[k].payload.color, applyLog[k].payload.colorKelvin>>

\* C24: a Device is Unknown, then Discovered, then Updated: every status
\* response its handler applies comes after a scan response the same handler
\* applied, so its status fields are populated only once its identity is.
C24_ScanBeforeStatus ==
  \A k \in 1..Len(applyLog) :
    applyLog[k].payload.type = "devStatusResponse" =>
      \E j \in 1..(k - 1) :
        /\ applyLog[j].dev = applyLog[k].dev
        /\ applyLog[j].payload.type = "scanResponse"

\* How many Messages the periodic scan has handed over, by where it is: none
\* before it starts, one per tick taken while it is in a send, one more
\* (the one on start) when it is back in its select or has returned.
ScanPattern ==
  /\ scanPc = "none" => scanSent = 0
  /\ scanPc \in {"send", "blocked", "panic"} => scanSent = ticks
  /\ scanPc \in {"select", "done"} => scanSent = ticks + 1

\* C25: the periodic scan hands one discovery request (to 239.255.255.250,
\* cmd scan) to c.command on start, before it takes any tick, then one for
\* every tick it takes, and nothing else; once it has taken its ctx.Done()
\* case it hands over nothing more.
C25_OneScanPerTick ==
  [][ /\ ScanPattern'
      /\ scanSent' # scanSent =>
           /\ scanSent' = scanSent + 1
           /\ scanPc \in {"send", "blocked"}
           /\ scanPc' = "select"
           /\ senderPc' = "busy"
           /\ cmd'.ip = "239.255.255.250"
           /\ cmd'.cmd = "scan"
      /\ (scanPc \in {"send", "blocked"} /\ scanPc' = "select") =>
           scanSent' = scanSent + 1
      /\ scanPc = "done" => (scanPc' = "done" /\ scanSent' = scanSent) ]_vars

\* C25's case: the periodic scan sent on start and after a tick, then took
\* its ctx.Done() case.
C25_Witness ==
  /\ scanPc = "done"
  /\ ticks = 1
  /\ scanSent = 2

\* The step in which the command sender's loop body ends for a Message.
BodyEnds == Len(outcomes') = Len(outcomes) + 1

\* C26: the command sender calls Write at most once for each Message it took
\* from c.command and never takes a Message twice: the k-th call of Write (if
\* any) is for a later Message than the one before, it is made exactly for
\* the Messages that ended as written or as a failed write, and the Messages
\* are handled in the order they were taken, one at a time.  A failure of
\* Marshal, ResolveUDPAddr, DialUDP or Write ends the body for that Message
\* alone: the goroutine is back at the range with no Message, the channel is
\* as it was.  The loop ends only when c.command has been closed.
C26_OneAttemptInOrder ==
  [][ /\ \A j, k \in 1..Len(wire') : j < k => wire'[j].k < wire'[k].k
      /\ \A j \in 1..Len(wire') :
           /\ wire'[j].k \in 1..Len(accepted')
           /\ wire'[j].msg = accepted'[wire'[j].k]
      /\ Len(accepted') - Len(outcomes') =
           (IF senderPc' \in {"target", "resolve", "dial", "write"}
              THEN 1 ELSE 0)
      /\ \A k \in 1..Len(outcomes') :
           (outcomes'[k] \in {"write", "sent"}) <=>
             (\E j \in 1..Len(wire') : wire'[j].k = k)
      /\ senderPc' \in {"target", "resolve", "dial", "write"} =>
           cmd' = accepted'[Len(accepted')]
      /\ BodyEnds =>
           /\ senderPc' = "range"
           /\ cmd' = NoMessage
           /\ UNCHANGED <<commandClosed, wg>>
           /\ SubSeq(outcomes', 1, Len(outcomes)) = outcomes
      /\ (senderPc # "done" /\ senderPc' = "done") => commandClosed ]_vars

\* C26's case: a Message was dropped after a failed write, the next one was
\* written, and the loop has ended after the close of c.command.
C26_Witness ==
  /\ Len(outcomes) >= 2
  /\ outcomes[1] = "write"
  /\ outcomes[2] = "sent"
  /\ Len(wire) = 2
  /\ senderPc = "done"

\* C27: the command sender writes a Message to port 4001 exactly when its
\* destination is 239.255.255.250, and to port 4003 of the destination
\* otherwise; it never writes to the listen port 4002.  The same holds for
\* the target it resolves and dials.
C27_PortByDestination ==
  /\ \A j \in 1..Len(wire) :
       /\ wire[j].to.ip = wire[j].msg.ip
       /\ (wire[j].to.port = 4001) <=> (wire[j].msg.ip = MulticastIP)
       /\ wire[j].msg.ip # MulticastIP => wire[j].to.port = 4003
       /\ wire[j].to.port # ListenPort
  /\ senderPc \in {"resolve", "dial", "write"} =>
       /\ targetAddr.ip = cmd.ip
       /\ targetAddr.port = (IF cmd.ip = MulticastIP THEN 4001 ELSE 4003)

\* C27's case: a discovery request was written to port 4001 and a device
\* command to port 4003 of the Device's address.
C27_Witness ==
  \E j, k \in 1..Len(wire) :
    /\ wire[j].msg.ip = MulticastIP
    /\ wire[j].to = [ip |-> MulticastIP, port |-> 4001]
    /\ wire[k].msg.ip \in IPs
    /\ wire[k].to = [ip |-> wire[k].msg.ip, port |-> 4003]

\* C28: the registry only grows, at its end: no step removes a Device, moves
\* it or puts another in its place (a Device is the one made for the source
\* address its logger carries), so what Devices() returns before a step is a
\* prefix of what it returns after; and the only step that adds a Device is
\* the listener's, for a datagram it read, adding one.
C28_RegistryGrowsOnly ==
  [][ /\ Len(devices') >= Len(devices)
      /\ \A i \in Registered : devices'[i].logger = devices[i].logger
      /\ Len(handlerPc') = Len(devices')
      /\ Len(statusUpdate') = Len(devices')
      /\ Len(devices') # Len(devices) =>
           /\ Len(devices') = Len(devices) + 1
           /\ listenerPc = "read"
           /\ received' = received + 1
           /\ devices'[Len(devices')] \in {NewDevice(ip) : ip \in IPs} ]_vars

\* C28's case: a second Device was registered after the first, and both
\* have applied a Message since.
C28_Witness ==
  /\ Len(devices) = 2
  /\ devices[1].logger # devices[2].logger
  /\ devices[1].seen # ZeroTime
  /\ devices[2].seen # ZeroTime

\* C29: no two registered Devices have the same ip.
C29_DistinctIPs ==
  \A i, j \in Registered : i # j => devices[i].ip # devices[j].ip

\* The status responses the handler of Device i has applied.
StatusApplied(i) ==
  Cardinality({k \in 1..Len(applyLog) :
                 /\ applyLog[k].dev = i
                 /\ applyLog[k].payload.type = "devStatusResponse"})

\* C30: d.statusUpdate holds at most one value; the handler's send on it
\* never blocks (a handler to which the listener is sending can always take
\* and apply the Message, whatever is buffered); and each value is received
\* by at most one RequestStatus call: the calls on a Device that returned nil
\* and the value still buffered are together at most the status responses
\* its handler applied, with any number of calls waiting.
C30_OneCallPerSignal ==
  \A i \in Registered :
    /\ statusUpdate[i] \in {0, 1}
    /\ statusOK[i] + statusUpdate[i] <= StatusApplied(i)
    /\ (~panicked /\ listenerPc = "route" /\ routed.dev = i
          /\ handlerPc[i] = "run") => ENABLED Handler_Apply(i)

\* C30's case: two RequestStatus calls waited on one Device at the same time,
\* its handler applied one status response, and one call returned nil.
C30_Witness ==
  /\ last.op = "RequestStatus"
  /\ last.result = "nil"
  /\ last.shared
  /\ \E i \in Registered :
       /\ statusOK[i] = 1
       /\ StatusApplied(i) = 1
       /\ WaitingOn(i) # {}

\* The handler of the Device it was sent to has taken and applied the Message
\* of the n-th datagram.
AppliedDatagram(n) ==
  \E j \in 1..Len(routeLog), k \in 1..Len(applyLog) :
    /\ routeLog[j].n = n
    /\ applyLog[k] = AsTaken(routeLog[j])

\* C31: under fair scheduling, whenever the listener has decoded a scan or
\* devStatus datagram and is sending its Message to the Device's handler,
\* then, unless cancellation fires, the handler applies it and the listener
\* is in ReadFromUDP again, the latest datagram read being that one:
\* listener and handlers do not deadlock, whatever the command sender and
\* the callers of RequestStatus are doing.
C31_DecodedIsApplied ==
  (listenerPc = "route" /\ ~ctxDone)
    ~> (ctxDone \/ (AppliedDatagram(received) /\ listenerPc = "read"))

\* C31's case: with a RequestStatus call waiting and no cancellation, the
\* handler has applied a status response that found a value buffered in
\* d.statusUpdate, and the listener is reading again.
C31_Witness ==
  /\ ~ctxDone
  /\ listenerPc = "read"
  /\ \E c \in Calls : calls[c].pc = "wait"
  /\ \E i \in Registered :
       /\ StatusApplied(i) = 2
       /\ AppliedDatagram(received)

=============================================================================
